---------------------------- MODULE Spec2Model ----------------------------
(***************************************************************************)
(* A model of the data-source query service                                *)
(* (plugins/data-sources/abstract-sql-query-service/AbstractQueryService). *)
(*                                                                         *)
(*   SpecFilter  : getRecords and the filter translator                    *)
(*                 (getCondition, getValue, addFilterToQuery)              *)
(*   SpecRecords : the primary-key keyed record operations                 *)
(*   SpecColumns : the getColumns pipeline with its fan-out of             *)
(*                 field-option lookups                                    *)
(*                                                                         *)
(* Strings whose characters matter (filter values, column names, labels)   *)
(* are sequences of one-character strings.  An optional value (undefined   *)
(* in the source) is the empty sequence, a present one a 1-tuple.          *)
(***************************************************************************)
EXTENDS Integers, Sequences, FiniteSets, TLC

VARIABLES
  call,        \* the operation invoked last, with its arguments
  query,       \* the knex query builder built by getRecords
  inspector,   \* what the schema inspector reports: columnInfo(table)
  rows,        \* the rows of the table
  issued,      \* the statements the last operation issued against the client
  ret,         \* what the last operation returned or threw
  engine,      \* what the engine reports for the table: columnInfo, foreign keys
  gc,          \* getColumns in progress: position, intermediate columns, lookups
  columns,     \* what getColumns returned
  warnings     \* what the last getColumns logged with logger.warn

vars == <<call, query, inspector, rows, issued, ret, engine, gc, columns, warnings>>

----------------------------------------------------------------------------
(* Bounds *)

MaxLen == 2        \* longest filter value
MaxFilters == 2    \* most filters in one getRecords request
MaxNum == 1        \* largest limit / offset
MaxVal == 2        \* largest cell value and record id
MaxCols == 2       \* most columns the engine reports for the table

----------------------------------------------------------------------------
(* Optional values and small helpers *)

None == <<>>
Some(x) == <<x>>
IsSome(o) == o # None
Get(o) == o[1]

BoundedSeq(S, n) == UNION {[1..k -> S] : k \in 0..n}

Range(s) == {s[i] : i \in DOMAIN s}

\* { ...a, ...b } : every key of b replaces the key of a, whole value
Spread(a, b) ==
  [k \in (DOMAIN a) \cup (DOMAIN b) |-> IF k \in DOMAIN b THEN b[k] ELSE a[k]]

EmptyObject == [k \in {} |-> 0]

----------------------------------------------------------------------------
(* Filter translator *)

Percent == "%"
Alphabet == {"a", Percent}
FilterValues == BoundedSeq(Alphabet, MaxLen)

\* the closed enumeration of filter conditions
Conditions ==
  {"is", "is_not", "contains", "not_contains", "starts_with", "ends_with",
   "is_empty", "is_not_empty", ">", ">=", "<", "<="}

\* conditions the enumeration does not hold
OtherConditions == {"is_null", ""}

Filters ==
  [columnName : {"name"}, condition : Conditions \cup OtherConditions,
   value : FilterValues]

getCondition(filter) ==
  CASE filter.condition = "is" -> "="
    [] filter.condition = "is_not" -> "!="
    [] filter.condition = "contains" -> "LIKE"
    [] filter.condition = "not_contains" -> "NOT LIKE"
    [] filter.condition = "starts_with" -> "LIKE"
    [] filter.condition = "ends_with" -> "LIKE"
    [] filter.condition = "is_empty" -> "LIKE"
    [] filter.condition = "is_not_empty" -> "LIKE"
    [] filter.condition = ">" -> ">"
    [] filter.condition = ">=" -> ">="
    [] filter.condition = "<" -> "<"
    [] filter.condition = "<=" -> "<="
    [] OTHER -> "="

\* a bug the value transform could have: the value passed on as it is
getValueNoWrap(filter) == filter.value

getValue(filter) ==
  CASE filter.condition \in {"contains", "not_contains"} ->
         <<Percent>> \o filter.value \o <<Percent>>
    [] filter.condition = "starts_with" -> <<Percent>> \o filter.value
    [] filter.condition = "ends_with" -> filter.value \o <<Percent>>
    [] filter.condition \in {"is_not_empty", "is_empty"} -> <<>>
    [] OTHER -> filter.value

\* this.client.table(tableName)
NewQuery(tableName) ==
  [table |-> tableName, limit |-> None, offset |-> None, select |-> None,
   wheres |-> <<>>, orderBy |-> <<>>]

\* query.where(column, operator, value)
Where(q, column, operator, value) ==
  [q EXCEPT !.wheres = Append(@, <<column, operator, value>>)]

addFilterToQuery(q, filter) ==
  Where(q, filter.columnName, getCondition(filter), getValue(filter))

RECURSIVE ForEachFilter(_, _)
ForEachFilter(q, filters) ==
  IF filters = <<>> THEN q
  ELSE ForEachFilter(addFilterToQuery(q, Head(filters)), Tail(filters))

isNumber(x) == IsSome(x)

\* a bug the paging test could have: if (limit && offset), which drops 0
PagingTruthy(q, limit, offset, select) ==
  IF limit \notin {None, Some(0)} /\ offset \notin {None, Some(0)}
  THEN [q EXCEPT !.limit = limit, !.offset = offset, !.select = Some(select)]
  ELSE q

\* lines 153-155
Paging(q, limit, offset, select) ==
  IF isNumber(limit) /\ isNumber(offset)
  THEN [q EXCEPT !.limit = limit, !.offset = offset, !.select = Some(select)]
  ELSE q

\* lines 157-159
Filtering(q, filters) ==
  IF IsSome(filters) THEN ForEachFilter(q, Get(filters)) ELSE q

\* lines 161-163; the column is qualified with the table name
Ordering(q, tableName, orderBy, orderDirection) ==
  IF orderBy # ""
  THEN [q EXCEPT !.orderBy = Append(@, <<tableName, orderBy, orderDirection>>)]
  ELSE q

BuildRecordsQuery(a) ==
  Ordering(
    Filtering(Paging(NewQuery(a.tableName), a.limit, a.offset, a.select),
              a.filters),
    a.tableName, a.orderBy, a.orderDirection)

\* a few filters for the requests that carry more than one
SampleFilters ==
  {[columnName |-> "name", condition |-> "contains", value |-> <<"a">>],
   [columnName |-> "name", condition |-> "is_not", value |-> <<Percent>>],
   [columnName |-> "name", condition |-> "is_null", value |-> <<"a">>]}

FilterLists ==
  {<<f>> : f \in Filters} \cup BoundedSeq(SampleFilters, MaxFilters)

Numbers == {None} \cup {Some(n) : n \in 0..MaxNum}

Idle == [op |-> "none"]

GetRecords ==
  \E limit \in Numbers, offset \in Numbers,
     filters \in {None} \cup {Some(l) : l \in FilterLists},
     orderBy \in {"", "name"}, select \in {<<>>, <<"name">>} :
    LET a == [op |-> "getRecords", tableName |-> "users", limit |-> limit,
              offset |-> offset, filters |-> filters, orderBy |-> orderBy,
              orderDirection |-> "asc", select |-> select]
    IN /\ call = Idle
       /\ call' = a
       /\ query' = Some(BuildRecordsQuery(a))
       /\ UNCHANGED <<inspector, rows, issued, ret, engine, gc, columns, warnings>>

InitFilter ==
  /\ call = Idle
  /\ query = None
  /\ inspector = <<>>
  /\ rows = {}
  /\ issued = <<>>
  /\ ret = None
  /\ engine = [columnInfo |-> <<>>, foreignKeys |-> {}]
  /\ gc = [pc |-> "idle"]
  /\ columns = None
  /\ warnings = <<>>

\* lines 129-133: the request is over; the next request constructs a new
\* instance of the service (lines 96-102) over the same database
Disconnect ==
  /\ call # Idle
  /\ gc.pc \in {"idle", "done"}
  /\ call' = Idle
  /\ query' = None
  /\ issued' = <<>>
  /\ ret' = None
  /\ gc' = [pc |-> "idle"]
  /\ columns' = None
  /\ warnings' = <<>>
  /\ UNCHANGED <<inspector, rows, engine>>

NextFilter == GetRecords \/ Disconnect

SpecFilter == InitFilter /\ [][NextFilter]_vars

----------------------------------------------------------------------------
(* Claims on the filter translator and getRecords *)

IsGetRecords == call.op = "getRecords"
TheFilters == IF IsSome(call.filters) THEN Get(call.filters) ELSE <<>>
TheQuery == Get(query)

\* C1: for the conditions is, is_not, contains, not_contains, is_empty,
\* is_not_empty, >, >=, <, <= the (operator, value) pair handed to where()
\* is the one of the table of section 4.4, and for a condition outside the
\* enumeration of filter conditions it is ('=', value).
C1_OperatorValueTable ==
  IsGetRecords =>
    /\ Len(TheQuery.wheres) = Len(TheFilters)
    /\ \A i \in DOMAIN TheFilters :
         LET c == TheFilters[i].condition
             v == TheFilters[i].value
             w == TheQuery.wheres[i]
             wrapped == <<Percent>> \o v \o <<Percent>>
         IN /\ c = "is" => w[2] = "=" /\ w[3] = v
            /\ c = "is_not" => w[2] = "!=" /\ w[3] = v
            /\ c = "contains" => w[2] = "LIKE" /\ w[3] = wrapped
            /\ c = "not_contains" => w[2] = "NOT LIKE" /\ w[3] = wrapped
            /\ c = "is_empty" => w[2] = "LIKE" /\ w[3] = <<>>
            /\ c = "is_not_empty" => w[2] = "LIKE" /\ w[3] = <<>>
            /\ c \in {">", ">=", "<", "<="} => w[2] = c /\ w[3] = v
            /\ c \notin Conditions => w[2] = "=" /\ w[3] = v

\* a contains filter with a value that itself holds a '%' has been translated
C1_Witness ==
  /\ IsGetRecords
  /\ TheFilters =
       <<[columnName |-> "name", condition |-> "contains",
          value |-> <<Percent, "a">>]>>
  /\ TheQuery.wheres = <<<<"name", "LIKE", <<Percent, Percent, "a", Percent>>>>>>

\* C2: starts_with gives LIKE with the value followed by '%', ends_with
\* gives LIKE with '%' followed by the value.
C2_StartsEndsWith ==
  IsGetRecords =>
    \A i \in DOMAIN TheFilters :
      LET c == TheFilters[i].condition
          v == TheFilters[i].value
          w == TheQuery.wheres[i]
      IN /\ c = "starts_with" => w[2] = "LIKE" /\ w[3] = v \o <<Percent>>
         /\ c = "ends_with" => w[2] = "LIKE" /\ w[3] = <<Percent>> \o v

\* C6: limit, offset and select are applied together when limit and offset
\* are both numbers (0 included) and none of them otherwise; the filters
\* and the ordering are applied in both cases.
C6_PagingAllOrNothing ==
  IsGetRecords =>
    /\ (IsSome(call.limit) /\ IsSome(call.offset)) =>
         /\ TheQuery.limit = call.limit
         /\ TheQuery.offset = call.offset
         /\ TheQuery.select = Some(call.select)
    /\ (call.limit = None \/ call.offset = None) =>
         /\ TheQuery.limit = None
         /\ TheQuery.offset = None
         /\ TheQuery.select = None
    /\ Len(TheQuery.wheres) = Len(TheFilters)
    /\ \A i \in DOMAIN TheFilters :
         TheQuery.wheres[i][1] = TheFilters[i].columnName
    /\ TheQuery.orderBy =
         IF call.orderBy = "" THEN <<>>
         ELSE <<<<call.tableName, call.orderBy, call.orderDirection>>>>

\* only limit is set: the query is filtered and ordered, not paged or projected
C6_Witness ==
  /\ IsGetRecords
  /\ call.limit = Some(0)
  /\ call.offset = None
  /\ call.select = <<"name">>
  /\ Len(TheFilters) = 2
  /\ call.orderBy = "name"
  /\ TheQuery.limit = None
  /\ TheQuery.select = None
  /\ Len(TheQuery.wheres) = 2
  /\ Len(TheQuery.orderBy) = 1

----------------------------------------------------------------------------
(* Record operations keyed by the primary key *)

Table == "users"
Vals == 1..MaxVal
Cells == [id : Vals, name : Vals]

\* inspector.columnInfo(tableName): no primary key, or one on either column
InspectorInfos ==
  {<<[name |-> "id", is_primary_key |-> a],
     [name |-> "name", is_primary_key |-> b]>> : a, b \in BOOLEAN} \
  {<<[name |-> "id", is_primary_key |-> TRUE],
     [name |-> "name", is_primary_key |-> TRUE]>>}

\* a bug the lookup could have: the first column taken as the key whatever
\* its is_primary_key flag
getPrimaryKeyColumnFirst(columnInfo) ==
  IF columnInfo = <<>> THEN None ELSE Some(columnInfo[1].name)

\* lines 398-407: the name of the first column with is_primary_key === true
getPrimaryKeyColumn(columnInfo) ==
  LET hits == {i \in DOMAIN columnInfo : columnInfo[i].is_primary_key = TRUE}
  IN IF hits = {} THEN None
     ELSE Some(columnInfo[CHOOSE i \in hits : \A j \in hits : i <= j].name)

\* the engine keeps a primary key column unique
UniqueOn(rs, columnInfo) ==
  LET pk == getPrimaryKeyColumn(columnInfo)
  IN IsSome(pk) =>
       \A r1, r2 \in rs : r1[Get(pk)] = r2[Get(pk)] => r1 = r2

PkError == "Can't find a primary key for table"
NoError == "none"
EngineError == "engine"

Thrown(e) == [error |-> e]
Returned(v) == [error |-> NoError, value |-> v]

Outcome(r, stmts, rs) == [ret |-> r, issued |-> stmts, rows |-> rs]

\* lines 187-197
getRecord(recordId, select) ==
  LET pk == getPrimaryKeyColumn(inspector)
  IN IF ~IsSome(pk) THEN Outcome(Thrown(PkError), <<>>, rows)
     ELSE LET found == {r \in rows : r[Get(pk)] = recordId}
          IN Outcome(
               Returned(IF found = {} THEN None
                        ELSE Some(CHOOSE r \in found : TRUE)),
               <<[stmt |-> "select", table |-> Table, columns |-> select,
                  where |-> <<Get(pk), "=", recordId>>]>>,
               rows)

\* lines 207-217; the engine refuses a duplicate key
createRecord(data) ==
  LET pk == getPrimaryKeyColumn(inspector)
  IN IF ~IsSome(pk) THEN Outcome(Thrown(PkError), <<>>, rows)
     ELSE LET stmts == <<[stmt |-> "insert", table |-> Table, data |-> data,
                          returning |-> Get(pk)]>>
              after == rows \cup {data}
          IN IF data \notin rows /\ UniqueOn(after, inspector)
             THEN Outcome(Returned(data[Get(pk)]), stmts, after)
             ELSE Outcome(Thrown(EngineError), stmts, rows)

\* lines 229-239; data holds the columns to set
updateRecord(recordId, data) ==
  LET pk == getPrimaryKeyColumn(inspector)
  IN IF ~IsSome(pk) THEN Outcome(Thrown(PkError), <<>>, rows)
     ELSE LET stmts == <<[stmt |-> "update", table |-> Table, data |-> data,
                          where |-> <<Get(pk), "=", recordId>>]>>
              hit == {r \in rows : r[Get(pk)] = recordId}
              after == (rows \ hit) \cup {Spread(r, data) : r \in hit}
          IN IF Cardinality(after) = Cardinality(rows) /\ UniqueOn(after, inspector)
             THEN Outcome(Returned(Cardinality(hit)), stmts, after)
             ELSE Outcome(Thrown(EngineError), stmts, rows)

\* lines 249-259
deleteRecord(recordId) ==
  LET pk == getPrimaryKeyColumn(inspector)
  IN IF ~IsSome(pk) THEN Outcome(Thrown(PkError), <<>>, rows)
     ELSE LET hit == {r \in rows : r[Get(pk)] = recordId}
          IN Outcome(Returned(Cardinality(hit)),
                     <<[stmt |-> "delete", table |-> Table,
                        where |-> <<Get(pk), "=", recordId>>]>>,
                     rows \ hit)

\* a bug the delete could have: the whereIn left out, every row deleted
deleteRecordsUnconditional(recordIds) ==
  LET pk == getPrimaryKeyColumn(inspector)
  IN IF ~IsSome(pk) THEN Outcome(Thrown(PkError), <<>>, rows)
     ELSE Outcome(Returned(Cardinality(rows)),
                  <<[stmt |-> "delete", table |-> Table,
                     where |-> <<Get(pk), "in", recordIds>>]>>,
                  {})

\* lines 269-279
deleteRecords(recordIds) ==
  LET pk == getPrimaryKeyColumn(inspector)
  IN IF ~IsSome(pk) THEN Outcome(Thrown(PkError), <<>>, rows)
     ELSE LET hit == {r \in rows : r[Get(pk)] \in recordIds}
          IN Outcome(Returned(Cardinality(hit)),
                     <<[stmt |-> "delete", table |-> Table,
                        where |-> <<Get(pk), "in", recordIds>>]>>,
                     rows \ hit)

Finish(c, o) ==
  /\ call = Idle
  /\ call' = c
  /\ ret' = Some(o.ret)
  /\ issued' = o.issued
  /\ rows' = o.rows
  /\ UNCHANGED <<query, inspector, engine, gc, columns, warnings>>

GetRecord ==
  \E recordId \in Vals, select \in {<<>>, <<"name">>} :
    Finish([op |-> "getRecord", recordId |-> recordId, select |-> select],
           getRecord(recordId, select))

CreateRecord ==
  \E data \in Cells :
    Finish([op |-> "createRecord", data |-> data], createRecord(data))

UpdateRecord ==
  \E recordId \in Vals, data \in [name : Vals] \cup [id : Vals] :
    Finish([op |-> "updateRecord", recordId |-> recordId, data |-> data],
           updateRecord(recordId, data))

DeleteRecord ==
  \E recordId \in Vals :
    Finish([op |-> "deleteRecord", recordId |-> recordId],
           deleteRecord(recordId))

DeleteRecords ==
  \E recordIds \in SUBSET Vals :
    Finish([op |-> "deleteRecords", recordIds |-> recordIds],
           deleteRecords(recordIds))

InitRecords ==
  /\ call = Idle
  /\ query = None
  /\ inspector \in InspectorInfos
  /\ rows \in {rs \in SUBSET Cells : UniqueOn(rs, inspector)}
  /\ issued = <<>>
  /\ ret = None
  /\ engine = [columnInfo |-> <<>>, foreignKeys |-> {}]
  /\ gc = [pc |-> "idle"]
  /\ columns = None
  /\ warnings = <<>>

NextRecords ==
  \/ GetRecord
  \/ CreateRecord
  \/ UpdateRecord
  \/ DeleteRecord
  \/ DeleteRecords
  \/ Disconnect

SpecRecords == InitRecords /\ [][NextRecords]_vars

----------------------------------------------------------------------------
(* Claims on the record operations *)

PkOps ==
  {"getRecord", "createRecord", "updateRecord", "deleteRecord", "deleteRecords"}

NoPrimaryKey == \A i \in DOMAIN inspector : inspector[i].is_primary_key # TRUE

\* C5: with no column reported as primary key, each of getRecord,
\* createRecord, updateRecord, deleteRecord and deleteRecords throws the
\* "Can't find a primary key" error, issues nothing against the client and
\* leaves the rows as they were; with a primary key none of them throws it.
C5_NoPrimaryKeyFailsFast ==
  [][call'.op \in PkOps =>
      IF NoPrimaryKey
      THEN /\ ret' = Some(Thrown(PkError))
           /\ issued' = <<>>
           /\ rows' = rows
      ELSE /\ Get(ret').error # PkError
           /\ Len(issued') = 1]_vars

\* deleteRecords was refused on a populated table with no primary key
C5_Witness ==
  /\ call.op = "deleteRecords"
  /\ call.recordIds = {1, 2}
  /\ NoPrimaryKey
  /\ Cardinality(rows) >= 2
  /\ ret = Some(Thrown(PkError))
  /\ issued = <<>>

\* the column the inspector reports as the primary key
ThePrimaryKey ==
  inspector[CHOOSE i \in DOMAIN inspector : inspector[i].is_primary_key = TRUE].name

\* C11: on a table with a primary key, deleteRecords issues exactly one
\* delete, on primary key IN ids, after which exactly the rows whose key is
\* in ids are gone and every other row is as it was; deleteRecord removes
\* only the rows whose key equals recordId, and updateRecord changes only
\* those.
C11_OnlyTheKeyedRows ==
  [][~NoPrimaryKey =>
      LET others(id) == {r \in rows : r[ThePrimaryKey] # id}
      IN /\ call'.op = "deleteRecords" =>
              /\ issued' = <<[stmt |-> "delete", table |-> Table,
                              where |-> <<ThePrimaryKey, "in", call'.recordIds>>]>>
              /\ rows' = {r \in rows : r[ThePrimaryKey] \notin call'.recordIds}
         /\ call'.op = "deleteRecord" =>
              /\ issued' = <<[stmt |-> "delete", table |-> Table,
                              where |-> <<ThePrimaryKey, "=", call'.recordId>>]>>
              /\ rows' = others(call'.recordId)
         /\ call'.op = "updateRecord" =>
              /\ issued' = <<[stmt |-> "update", table |-> Table,
                              data |-> call'.data,
                              where |-> <<ThePrimaryKey, "=", call'.recordId>>]>>
              /\ others(call'.recordId) \subseteq rows'
              /\ Cardinality(rows') = Cardinality(rows)
              /\ \A r \in rows' \ rows :
                   \E old \in rows \ others(call'.recordId) :
                     r = Spread(old, call'.data)]_vars

\* deleteRecords([1]) removed one of two rows
C11_Witness ==
  /\ call.op = "deleteRecords"
  /\ call.recordIds = {1}
  /\ ~NoPrimaryKey
  /\ ret = Some(Returned(1))
  /\ Cardinality(rows) = 1
  /\ \A r \in rows : r[ThePrimaryKey] = 2

----------------------------------------------------------------------------
(* getColumns *)

N_id == <<"i", "d">>
N_user_id == <<"u", "s", "e", "r", "_", "i", "d">>
N_email == <<"e", "m", "a", "i", "l">>
N_zip == <<"z", "i", "p">>

\* the order in which the engine lists the columns it has
NameOrder == <<N_id, N_user_id, N_email>>

\* the native types of the tables: a numeric one and one no case names
SampleTypes == {"integer", "varchar"}

\* every native type the inference names, and two it does not
NativeTypes ==
  {"character", "character varying", "interval", "name", "boolean", "bit",
   "timestamp without time zone", "timestamp with time zone",
   "time without time zone", "time with time zone", "date", "json", "jsonb",
   "text", "xml", "bytea", "integer", "bigint", "numeric", "smallint", "oid",
   "uuid", "real", "double precision", "money", "varchar", "geometry"}

FieldTypes ==
  {"Text", "Boolean", "DateTime", "Json", "Textarea", "Number", "Id",
   "Select", "Association"}

\* @/features/fields idColumns: the id-like column names
idColumns == {N_id}

\* @/features/fields getBaseOptions(); option values are objects
getBaseOptions ==
  [visibility |-> [index |-> 1, show |-> 1], required |-> [value |-> 0]]

\* the default export of a field type's fieldOptions module
ModuleDefault == [rows |-> [min |-> 1, max |-> 5]]

LowerCase == <<"a", "d", "e", "i", "l", "m", "p", "r", "s", "u", "z">>
UpperCase == <<"A", "D", "E", "I", "L", "M", "P", "R", "S", "U", "Z">>

toUpperCase(c) ==
  IF \E i \in DOMAIN LowerCase : LowerCase[i] = c
  THEN UpperCase[CHOOSE i \in DOMAIN LowerCase : LowerCase[i] = c]
  ELSE c

\* @/lib/humanize: the words split at the underscores, the first capitalized
humanize(str) ==
  [i \in DOMAIN str |->
     IF str[i] = "_" THEN " "
     ELSE IF i = 1 THEN toUpperCase(str[i]) ELSE str[i]]

\* a bug the label could have: no special case for "id"
getColumnLabelPlain(column) == humanize(column.name)

\* lines 429-433
getColumnLabel(column) ==
  IF column.name = N_id THEN <<"I", "D">> ELSE humanize(column.name)

\* a bug the inference could have: the foreign key not looked at
getFieldTypeFromNativeType(column) ==
  LET type == column.dataSourceInfo.type
  IN CASE type \in {"integer", "bigint", "numeric", "smallint", "oid", "uuid",
                    "real", "double precision", "money"} ->
            IF column.name \in idColumns THEN "Id" ELSE "Number"
       [] type \in {"text", "xml", "bytea"} -> "Textarea"
       [] OTHER -> "Text"

\* a bug the inference could have: the id-like names not looked at
getFieldTypeWithoutId(column) ==
  IF IsSome(column.foreignKeyInfo) THEN "Association"
  ELSE LET type == column.dataSourceInfo.type
       IN CASE type \in {"boolean", "bit"} -> "Boolean"
            [] type \in {"timestamp without time zone",
                         "timestamp with time zone", "time without time zone",
                         "time with time zone", "date"} -> "DateTime"
            [] type \in {"json", "jsonb"} -> "Json"
            [] type \in {"text", "xml", "bytea"} -> "Textarea"
            [] type \in {"integer", "bigint", "numeric", "smallint", "oid",
                         "uuid", "real", "double precision", "money"} -> "Number"
            [] OTHER -> "Text"

\* lines 435-478
getFieldTypeFromColumnInfo(column) ==
  IF IsSome(column.foreignKeyInfo) THEN "Association"
  ELSE LET type == column.dataSourceInfo.type
       IN CASE type \in {"character", "character varying", "interval", "name"} ->
                 "Text"
            [] type \in {"boolean", "bit"} -> "Boolean"
            [] type \in {"timestamp without time zone",
                         "timestamp with time zone", "time without time zone",
                         "time with time zone", "date"} -> "DateTime"
            [] type \in {"json", "jsonb"} -> "Json"
            [] type \in {"text", "xml", "bytea"} -> "Textarea"
            [] type \in {"integer", "bigint", "numeric", "smallint", "oid",
                         "uuid", "real", "double precision", "money"} ->
                 IF column.name \in idColumns THEN "Id" ELSE "Number"
            [] OTHER -> "Text"

\* lines 409-424
getForeignKeys(tableName) ==
  {[tableName |-> fk.table, columnName |-> fk.column,
    foreignTableName |-> fk.foreign_key_table,
    foreignColumnName |-> fk.foreign_key_column] :
     fk \in {k \in engine.foreignKeys : k.table = tableName}}

\* storedColumns[column.name], undefined when storedColumns or the entry is
StoredColumn(storedColumns, name) ==
  IF IsSome(storedColumns) /\ name \in DOMAIN Get(storedColumns)
  THEN Some(Get(storedColumns)[name])
  ELSE None

\* storedColumn?.field
StoredField(storedColumn, field) ==
  IF IsSome(storedColumn) THEN Get(storedColumn)[field] ELSE None

\* lines 301-308
ColumnsWithDataSourceInfo(rawColumns, primaryKeyColumn) ==
  LET One(raw) ==
        [name |-> raw.name, label |-> raw.name,
         dataSourceInfo |-> [type |-> raw.type],
         primaryKey |-> primaryKeyColumn = Some(raw.name)]
  IN [i \in DOMAIN rawColumns |-> One(rawColumns[i])]

\* lines 296-298, 310-314
ColumnsWithForeignKeyInfo(cols, foreignKeys) ==
  LET One(column) ==
        LET fks == {fk \in foreignKeys : fk.columnName = column.name}
        IN Spread(column,
                  [foreignKeyInfo |->
                     IF fks = {} THEN None ELSE Some(CHOOSE fk \in fks : TRUE)])
  IN [i \in DOMAIN cols |-> One(cols[i])]

\* lines 316-323
ColumnsWithBaseOptions(cols) ==
  LET One(column) == Spread(column, [baseOptions |-> getBaseOptions])
  IN [i \in DOMAIN cols |-> One(cols[i])]

\* a bug the choice could have: the inference asked first
FieldTypeInferredFirst(column, storedColumns) ==
  getFieldTypeFromColumnInfo(column)

\* lines 327-333: storedColumn?.fieldType || getFieldTypeFromColumnInfo(column)
FieldTypeOf(column, storedColumns) ==
  LET storedFieldType ==
        StoredField(StoredColumn(storedColumns, column.name), "fieldType")
  IN IF IsSome(storedFieldType) THEN Get(storedFieldType)
     ELSE getFieldTypeFromColumnInfo(column)

\* lines 325-339
ColumnsWithFieldType(cols, storedColumns) ==
  LET One(column) ==
        Spread(column, [fieldType |-> FieldTypeOf(column, storedColumns)])
  IN [i \in DOMAIN cols |-> One(cols[i])]

\* lines 293-339: what getColumns has built when it awaits the lookups
BeforeLookups(tableName, storedColumns) ==
  ColumnsWithFieldType(
    ColumnsWithBaseOptions(
      ColumnsWithForeignKeyInfo(
        ColumnsWithDataSourceInfo(engine.columnInfo,
                                  getPrimaryKeyColumn(inspector)),
        getForeignKeys(tableName))),
    storedColumns)

\* one column's promise: pending, fulfilled with a tuple or with undefined,
\* or rejected
Pending == [state |-> "pending"]
Fulfilled(outcome, tuple) ==
  [state |-> "fulfilled", outcome |-> outcome, tuple |-> tuple]
Rejected(outcome) == [state |-> "rejected", outcome |-> outcome, tuple |-> None]

\* lines 486-499: the tuple of a module found; a failed import is caught and
\* the callback returns undefined
LookupResult(name, outcome) ==
  IF outcome = "found" THEN Fulfilled(outcome, Some(<<name, ModuleDefault>>))
  ELSE Fulfilled(outcome, None)

\* how the import of a field type's fieldOptions module can end
Outcomes == {"found", "MODULE_NOT_FOUND", "OTHER_ERROR"}

\* a bug the catch could have: every failed import logged
ShouldWarnAlways(code) == TRUE

\* line 493
ShouldWarn(code) == code # "MODULE_NOT_FOUND"

\* lines 503-505: Object.fromEntries of the tuples that are not undefined
FieldOptionsByFieldName(cols, lookups) ==
  LET kept == {i \in DOMAIN lookups :
                 lookups[i].state = "fulfilled" /\ IsSome(lookups[i].tuple)}
  IN [n \in {Get(lookups[i].tuple)[1] : i \in kept} |->
        Get(lookups[CHOOSE i \in kept : Get(lookups[i].tuple)[1] = n].tuple)[2]]

\* a bug the stage could have: only the columns with default options kept
ColumnsWithFieldOptionsFound(cols, byName) ==
  LET One(column) == Spread(column, [fieldOptions |-> byName[column.name]])
      found == SelectSeq(cols, LAMBDA c : c.name \in DOMAIN byName)
  IN [i \in DOMAIN found |-> One(found[i])]

\* lines 346-357
ColumnsWithFieldOptions(cols, byName) ==
  LET One(column) ==
        Spread(column,
               [fieldOptions |->
                  IF column.name \in DOMAIN byName THEN byName[column.name]
                  ELSE EmptyObject])
  IN [i \in DOMAIN cols |-> One(cols[i])]

\* a bug the merge could have: a deep merge, as lodash merge does
MergeOptionsDeep(defaults, stored) ==
  [k \in (DOMAIN defaults) \cup (DOMAIN stored) |->
     IF k \in DOMAIN stored
     THEN IF k \in DOMAIN defaults THEN Spread(defaults[k], stored[k])
          ELSE stored[k]
     ELSE defaults[k]]

\* lines 374-381: { ...column.options, ...options }
MergeOptions(defaults, stored) == Spread(defaults, stored)

\* lines 359-385
ColumnsWithStoredOptions(cols, storedColumns) ==
  LET One(column) ==
        LET storedColumn == StoredColumn(storedColumns, column.name)
            storedBase == StoredField(storedColumn, "baseOptions")
            storedField == StoredField(storedColumn, "fieldOptions")
            baseOptions ==
              IF IsSome(storedBase) THEN Get(storedBase) ELSE EmptyObject
            fieldOptions ==
              IF IsSome(storedField) THEN Get(storedField) ELSE EmptyObject
        IN Spread(column,
                  [baseOptions |-> MergeOptions(column.baseOptions, baseOptions),
                   fieldOptions |->
                     MergeOptions(column.fieldOptions, fieldOptions)])
  IN [i \in DOMAIN cols |-> One(cols[i])]

\* lines 387-392
ColumnsWithLabel(cols) ==
  LET One(column) == Spread(column, [label |-> getColumnLabel(column)])
  IN [i \in DOMAIN cols |-> One(cols[i])]

\* lines 346-395: what getColumns builds once the lookups have settled
AfterLookups(cols, lookups, storedColumns) ==
  ColumnsWithLabel(
    ColumnsWithStoredOptions(
      ColumnsWithFieldOptions(cols, FieldOptionsByFieldName(cols, lookups)),
      storedColumns))

\* stored column configurations
StoredWithType ==
  [fieldType |-> Some("Select"), label |-> Some(<<"K", "e", "y">>),
   baseOptions |-> None, fieldOptions |-> Some([rows |-> [max |-> 9]])]
StoredWithBase ==
  [fieldType |-> None, label |-> None,
   baseOptions |-> Some([visibility |-> [index |-> 0], help |-> [value |-> 1]]),
   fieldOptions |-> None]
StoredEntries == {StoredWithType, StoredWithBase}
StoredNames == {N_id, N_user_id, N_zip}
StoredConfigurations ==
  {None} \cup
  {Some(f) : f \in UNION {[D -> StoredEntries] : D \in SUBSET StoredNames}}

\* lines 286-344: getColumns up to the await of Promise.all, every lookup begun
GetColumnsStart ==
  \E storedColumns \in StoredConfigurations :
    LET cols == BeforeLookups(Table, storedColumns)
    IN /\ call = Idle
       /\ gc.pc = "idle"
       /\ call' = [op |-> "getColumns", tableName |-> Table,
                   storedColumns |-> storedColumns]
       /\ gc' = [pc |-> "lookups", columns |-> cols,
                 lookups |-> [i \in DOMAIN cols |-> Pending]]
       /\ warnings' = <<>>
       /\ UNCHANGED <<query, inspector, rows, issued, ret, engine, columns>>

\* lines 485-500: one column's import settles, in any order
LookupSettle ==
  \E i \in 1..MaxCols, outcome \in Outcomes :
    /\ gc.pc = "lookups"
    /\ i \in DOMAIN gc.lookups
    /\ gc.lookups[i] = Pending
    /\ gc' = [gc EXCEPT !.lookups[i] = LookupResult(gc.columns[i].name, outcome)]
    /\ warnings' =
         IF outcome # "found" /\ ShouldWarn(outcome)
         THEN Append(warnings, gc.columns[i].name)
         ELSE warnings
    /\ UNCHANGED <<call, query, inspector, rows, issued, ret, engine, columns>>

\* a bug the fan-in could have: the first lookup to settle awaited, not all
AnyFulfilled(lookups) ==
  lookups = <<>> \/ \E i \in DOMAIN lookups : lookups[i].state = "fulfilled"

\* line 484: await Promise.all(...) goes on once every promise is fulfilled
AllFulfilled(lookups) ==
  \A i \in DOMAIN lookups : lookups[i].state = "fulfilled"

\* lines 484, 503-505, 346-395: Promise.all settles: rejected by a lookup that
\* rejected, and otherwise fulfilled once every lookup is, and then the
\* columns are assembled
GetColumnsFinish ==
  /\ gc.pc = "lookups"
  /\ gc' = [gc EXCEPT !.pc = "done"]
  /\ IF \E i \in DOMAIN gc.lookups : gc.lookups[i].state = "rejected"
     THEN /\ columns' = None
          /\ ret' = Some(Thrown("lookup"))
     ELSE /\ AllFulfilled(gc.lookups)
          /\ columns' =
               Some(AfterLookups(gc.columns, gc.lookups, call.storedColumns))
          /\ ret' = Some(Returned("columns"))
  /\ UNCHANGED <<call, query, inspector, rows, issued, engine, warnings>>

\* the tables the engine can hold: up to MaxCols of the names, in order
ColumnInfos ==
  {ci \in BoundedSeq([name : Range(NameOrder), type : SampleTypes], MaxCols) :
     \A i, j \in DOMAIN ci :
       i < j =>
         \E a, b \in DOMAIN NameOrder :
           a < b /\ NameOrder[a] = ci[i].name /\ NameOrder[b] = ci[j].name}

ForeignKey(table, column) ==
  [table |-> table, column |-> column, foreign_key_table |-> "teams",
   foreign_key_column |-> N_id]

\* a foreign key of another table, on a column name this table has too
OtherTableKeys == {ForeignKey("posts", N_email)}

InitColumns ==
  /\ call = Idle
  /\ query = None
  /\ \E ci \in ColumnInfos :
       \E fkColumns \in SUBSET {ci[i].name : i \in DOMAIN ci} :
         /\ engine = [columnInfo |-> ci,
                      foreignKeys |->
                        {ForeignKey(Table, n) : n \in fkColumns} \cup
                        OtherTableKeys]
         /\ inspector =
              [i \in DOMAIN ci |->
                 [name |-> ci[i].name, is_primary_key |-> ci[i].name = N_id]]
  /\ rows = {}
  /\ issued = <<>>
  /\ ret = None
  /\ gc = [pc |-> "idle"]
  /\ columns = None
  /\ warnings = <<>>

NextColumns ==
  \/ GetColumnsStart
  \/ LookupSettle
  \/ GetColumnsFinish
  \/ Disconnect

SpecColumns == InitColumns /\ [][NextColumns]_vars

----------------------------------------------------------------------------
(* Claims on getColumns *)

Done == call.op = "getColumns" /\ gc.pc = "done"
Result == Get(columns)
HasForeignKey(name) ==
  \E fk \in engine.foreignKeys : fk.table = Table /\ fk.column = name
StoredFor(name, field) ==
  StoredField(StoredColumn(call.storedColumns, name), field)
StoredOptionsFor(name, field) ==
  IF IsSome(StoredFor(name, field)) THEN Get(StoredFor(name, field))
  ELSE EmptyObject
IsShallowMerge(result, defaults, stored) ==
  /\ DOMAIN result = (DOMAIN defaults) \cup (DOMAIN stored)
  /\ \A k \in DOMAIN result :
       result[k] = IF k \in DOMAIN stored THEN stored[k] ELSE defaults[k]
DefaultFieldOptions(i) ==
  IF gc.lookups[i].outcome = "found" THEN ModuleDefault ELSE EmptyObject

\* C3 as stated: every column with a foreign key has fieldType Association,
\* also when the stored configuration declares another fieldType.
C3_ForeignKeyAlwaysAssociation ==
  Done =>
    \A i \in DOMAIN Result :
      HasForeignKey(Result[i].name) => Result[i].fieldType = "Association"

\* C3 (amended): a column with a foreign key has the fieldType its stored
\* configuration declares when it declares one, and Association otherwise,
\* for every native type.
C3_ForeignKeyAssociationUnlessStored ==
  /\ Done =>
       \A i \in DOMAIN Result :
         HasForeignKey(Result[i].name) =>
           Result[i].fieldType =
             IF IsSome(StoredFor(Result[i].name, "fieldType"))
             THEN Get(StoredFor(Result[i].name, "fieldType"))
             ELSE "Association"
  /\ \A type \in NativeTypes, name \in Range(NameOrder) :
       getFieldTypeFromColumnInfo(
         [name |-> name, dataSourceInfo |-> [type |-> type],
          foreignKeyInfo |-> Some(ForeignKey(Table, name))]) = "Association"

\* a foreign-key column whose stored configuration declares Select
C3_Witness ==
  /\ Done
  /\ \E i \in DOMAIN Result :
       /\ HasForeignKey(Result[i].name)
       /\ StoredFor(Result[i].name, "fieldType") = Some("Select")
       /\ Result[i].fieldType = "Select"
  /\ \E i \in DOMAIN Result :
       /\ HasForeignKey(Result[i].name)
       /\ StoredFor(Result[i].name, "fieldType") = None
       /\ Result[i].fieldType = "Association"

\* C4: a column with no foreign key whose stored configuration declares a
\* fieldType has exactly that fieldType, whatever its native type and name.
C4_StoredFieldTypeVerbatim ==
  Done =>
    \A i \in DOMAIN Result :
      (/\ ~HasForeignKey(Result[i].name)
       /\ IsSome(StoredFor(Result[i].name, "fieldType"))) =>
        Result[i].fieldType = Get(StoredFor(Result[i].name, "fieldType"))

\* the integer column "id", which the native types make an Id, stored as Select
C4_Witness ==
  /\ Done
  /\ \E i \in DOMAIN Result :
       /\ Result[i].name = N_id
       /\ Result[i].dataSourceInfo.type = "integer"
       /\ ~HasForeignKey(N_id)
       /\ StoredFor(N_id, "fieldType") = Some("Select")
       /\ Result[i].fieldType = "Select"

\* C7: the columns returned have exactly the names the engine's columnInfo
\* reports, each once and in its order, whatever the stored configuration.
C7_ColumnsAreTheEnginesColumns ==
  Done =>
    /\ Len(Result) = Len(engine.columnInfo)
    /\ \A i \in DOMAIN Result : Result[i].name = engine.columnInfo[i].name

\* two columns, one stored entry for a name the engine does not report, none
\* for a name it does, and a lookup that failed
C7_Witness ==
  /\ Done
  /\ Len(Result) = 2
  /\ IsSome(call.storedColumns)
  /\ N_zip \in DOMAIN Get(call.storedColumns)
  /\ \E i \in DOMAIN Result : Result[i].name \notin DOMAIN Get(call.storedColumns)
  /\ \E i \in DOMAIN Result : gc.lookups[i].outcome = "MODULE_NOT_FOUND"

\* C8: baseOptions and fieldOptions are the shallow merge of the stored
\* options over the defaults: a stored key replaces the whole default value,
\* a key only the defaults have keeps it.
C8_ShallowMerge ==
  Done =>
    \A i \in DOMAIN Result :
      /\ IsShallowMerge(Result[i].baseOptions, getBaseOptions,
                        StoredOptionsFor(Result[i].name, "baseOptions"))
      /\ IsShallowMerge(Result[i].fieldOptions, DefaultFieldOptions(i),
                        StoredOptionsFor(Result[i].name, "fieldOptions"))

\* stored rows = {max} over the default rows = {min, max}, and stored
\* visibility = {index} over the default visibility = {index, show}
C8_Witness ==
  /\ Done
  /\ \E i \in DOMAIN Result :
       /\ gc.lookups[i].outcome = "found"
       /\ StoredFor(Result[i].name, "fieldOptions") = Some([rows |-> [max |-> 9]])
       /\ Result[i].fieldOptions = [rows |-> [max |-> 9]]
  /\ \E i \in DOMAIN Result :
       /\ IsSome(StoredFor(Result[i].name, "baseOptions"))
       /\ Result[i].baseOptions.visibility = [index |-> 0]
       /\ Result[i].baseOptions.required = [value |-> 0]

\* C9 as stated: the label is the stored label when there is one, otherwise
\* the humanized name, "ID" for "id".
C9_StoredLabelFirst ==
  Done =>
    \A i \in DOMAIN Result :
      Result[i].label =
        IF IsSome(StoredFor(Result[i].name, "label"))
        THEN Get(StoredFor(Result[i].name, "label"))
        ELSE IF Result[i].name = N_id THEN <<"I", "D">>
        ELSE humanize(Result[i].name)

\* C9 (amended): the label is the humanized name, "ID" for "id", whether or
\* not the stored configuration has a label.
C9_LabelFromName ==
  /\ Done =>
       \A i \in DOMAIN Result :
         Result[i].label =
           IF Result[i].name = N_id THEN <<"I", "D">>
           ELSE humanize(Result[i].name)
  /\ humanize(N_user_id) = <<"U", "s", "e", "r", " ", "i", "d">>

\* "id" with a stored label is labelled "ID", "user_id" is labelled "User id"
C9_Witness ==
  /\ Done
  /\ \E i \in DOMAIN Result :
       /\ Result[i].name = N_id
       /\ StoredFor(N_id, "label") = Some(<<"K", "e", "y">>)
       /\ Result[i].label = <<"I", "D">>
  /\ \E i \in DOMAIN Result :
       /\ Result[i].name = N_user_id
       /\ Result[i].label = <<"U", "s", "e", "r", " ", "i", "d">>

FieldOptionsAreTheStored(i) ==
  Result[i].fieldOptions = StoredOptionsFor(Result[i].name, "fieldOptions")

\* C10 as stated: a lookup that ends module-not-found does not fail
\* getColumns, logs a warning for the column and leaves its default
\* fieldOptions empty.
C10_MissingModuleWarns ==
  Done =>
    /\ IsSome(columns)
    /\ ret = Some(Returned("columns"))
    /\ \A i \in DOMAIN Result :
         gc.lookups[i].outcome = "MODULE_NOT_FOUND" =>
           /\ Result[i].name \in Range(warnings)
           /\ FieldOptionsAreTheStored(i)

\* C10 (amended): a lookup that ends module-not-found does not fail
\* getColumns, logs nothing and leaves the column's default fieldOptions
\* empty; a lookup that fails with any other error does not fail getColumns
\* either, leaves the defaults empty too, and is the one that logs a warning.
C10_MissingModuleSilent ==
  Done =>
       /\ IsSome(columns)
       /\ ret = Some(Returned("columns"))
       /\ \A i \in DOMAIN Result :
            /\ gc.lookups[i].outcome = "MODULE_NOT_FOUND" =>
                 /\ Result[i].name \notin Range(warnings)
                 /\ FieldOptionsAreTheStored(i)
            /\ gc.lookups[i].outcome = "OTHER_ERROR" =>
                 /\ Result[i].name \in Range(warnings)
                 /\ FieldOptionsAreTheStored(i)
            /\ gc.lookups[i].outcome = "found" =>
                 Result[i].name \notin Range(warnings)

\* one column's module is missing and it has stored fieldOptions, the other
\* column's lookup failed otherwise: one warning, for the second only
C10_Witness ==
  /\ Done
  /\ Len(warnings) = 1
  /\ \E i, j \in DOMAIN Result :
       /\ gc.lookups[i].outcome = "MODULE_NOT_FOUND"
       /\ IsSome(StoredFor(Result[i].name, "fieldOptions"))
       /\ Result[i].fieldOptions = [rows |-> [max |-> 9]]
       /\ gc.lookups[j].outcome = "OTHER_ERROR"
       /\ warnings = <<Result[j].name>>

----------------------------------------------------------------------------
(* The MySQL query service (plugins/data-sources/mysql/QueryService) *)

\* native types of MySQL columns
MysqlSampleTypes == {"int", "tinyint", "datetime", "longtext"}

\* QueryService.getFieldOptionsFromColumnInfo: of the two "enum" labels the
\* first one is the one a switch reaches
getFieldOptionsFromColumnInfo(column) ==
  LET type == column.dataSourceInfo.type
      byType ==
        CASE type \in {"char", "varchar", "binary", "varbinary", "tinyblob",
                       "tinytext", "enum", "set"} -> "Text"
          [] type \in {"tinyint", "bit"} -> "Boolean"
          [] type \in {"date", "datetime", "timestamp", "time", "year"} ->
               "DateTime"
          [] type = "json" -> "Json"
          [] type \in {"blob", "text", "mediumblob", "mediumtext", "longblob",
                       "longtext"} -> "Textarea"
          [] type \in {"int", "smallint", "mediumint", "bigint", "float",
                       "double", "decimal", "numeric"} ->
               IF column.name \in idColumns THEN "Id" ELSE "Number"
          [] OTHER -> "Text"
  IN [fieldType |->
        IF IsSome(column.foreignKeyInfo) THEN "Association" ELSE byType]

\* the tables a MySQL engine can hold
MysqlColumnInfos ==
  {ci \in BoundedSeq([name : Range(NameOrder), type : MysqlSampleTypes], MaxCols) :
     \A i, j \in DOMAIN ci :
       i < j =>
         \E a, b \in DOMAIN NameOrder :
           a < b /\ NameOrder[a] = ci[i].name /\ NameOrder[b] = ci[j].name}

\* the service constructed over a MySQL data source: getColumns and the rest
\* are the inherited ones
InitMysql ==
  /\ call = Idle
  /\ query = None
  /\ \E ci \in MysqlColumnInfos :
       \E fkColumns \in SUBSET {ci[i].name : i \in DOMAIN ci} :
         /\ engine = [columnInfo |-> ci,
                      foreignKeys |->
                        {ForeignKey(Table, n) : n \in fkColumns} \cup
                        OtherTableKeys]
         /\ inspector =
              [i \in DOMAIN ci |->
                 [name |-> ci[i].name, is_primary_key |-> ci[i].name = N_id]]
  /\ rows = {}
  /\ issued = <<>>
  /\ ret = None
  /\ gc = [pc |-> "idle"]
  /\ columns = None
  /\ warnings = <<>>

SpecMysql == InitMysql /\ [][NextColumns]_vars

\* C12: for the MySQL query service, the fieldType getColumns gives a column
\* with no stored fieldType and no foreign key is the one of the MySQL
\* subclass's own table, getFieldOptionsFromColumnInfo.
C12_MysqlTableUsed ==
  Done =>
    \A i \in DOMAIN Result :
      (/\ ~HasForeignKey(Result[i].name)
       /\ StoredFor(Result[i].name, "fieldType") = None) =>
        Result[i].fieldType = getFieldOptionsFromColumnInfo(gc.columns[i]).fieldType

----------------------------------------------------------------------------
(* The fan-out of the field-option lookups *)

\* the lookups run one by one, in column order, each ending as it did
RECURSIVE OneByOne(_, _, _)
OneByOne(cols, outcomes, settled) ==
  IF Len(settled) = Len(cols) THEN settled
  ELSE LET i == Len(settled) + 1
       IN OneByOne(cols, outcomes,
                   Append(settled, LookupResult(cols[i].name, outcomes[i])))

\* C13: whatever the order in which the lookups settle, and whichever of
\* them fail, the columns are assembled only after every lookup has
\* settled, they are the columns the lookups run one by one in column order
\* would give, and a column's fieldOptions depend on its own lookup only.
C13_LookupOrderIrrelevant ==
  Done =>
    /\ \A i \in DOMAIN gc.lookups : gc.lookups[i].state = "fulfilled"
    /\ Result =
         AfterLookups(gc.columns,
                      OneByOne(gc.columns,
                               [i \in DOMAIN gc.lookups |-> gc.lookups[i].outcome],
                               <<>>),
                      call.storedColumns)
    /\ \A i \in DOMAIN Result :
         /\ Result[i].name = engine.columnInfo[i].name
         /\ Result[i].fieldOptions =
              Spread(DefaultFieldOptions(i),
                     StoredOptionsFor(Result[i].name, "fieldOptions"))

\* the second column's lookup failed before the first column's did, and the
\* columns are in column order with their stored fieldOptions
C13_Witness ==
  /\ Done
  /\ Len(Result) = 2
  /\ warnings = <<Result[2].name, Result[1].name>>
  /\ gc.lookups[1].outcome = "OTHER_ERROR"
  /\ gc.lookups[2].outcome = "OTHER_ERROR"
  /\ Result[1].fieldOptions = [rows |-> [max |-> 9]]
  /\ Result[2].fieldOptions = EmptyObject

----------------------------------------------------------------------------
(* The native-type inference on its own *)

InferenceNames == Range(NameOrder) \cup {N_zip}

\* getFieldTypeFromColumnInfo called with a column of any native type and
\* name, with or without a foreign key
InferFieldType ==
  \E type \in NativeTypes, name \in InferenceNames,
     foreignKeyInfo \in {None, Some(ForeignKey(Table, N_id))} :
    LET column == [name |-> name, dataSourceInfo |-> [type |-> type],
                   foreignKeyInfo |->
                     IF IsSome(foreignKeyInfo)
                     THEN Some(ForeignKey(Table, name)) ELSE None]
    IN /\ call' = [op |-> "getFieldTypeFromColumnInfo", column |-> column]
       /\ ret' = Some(Returned(getFieldTypeFromColumnInfo(column)))
       /\ UNCHANGED <<query, inspector, rows, issued, engine, gc, columns,
                      warnings>>

InitInfer == InitFilter

NextInfer == InferFieldType

SpecInfer == InitInfer /\ [][NextInfer]_vars

\* every case label of the switch
RecognizedTypes ==
  {"character", "character varying", "interval", "name", "boolean", "bit",
   "timestamp without time zone", "timestamp with time zone",
   "time without time zone", "time with time zone", "date", "json", "jsonb",
   "text", "xml", "bytea", "integer", "bigint", "numeric", "smallint", "oid",
   "uuid", "real", "double precision", "money"}

=============================================================================
